---- MODULE Spec2Model ----
(***************************************************************************)
(* The GameBoard component of snake-frontend                                *)
(* (src/src/components/GameBoard/GameBoard.tsx) as a state machine.         *)
(*                                                                         *)
(* The variables are the component's useState cells.  One action is one    *)
(* event handled by the component together with the render and the effects *)
(* that follow it: a callback of the tick interval, a keydown event, a     *)
(* click on the reset button of the game-over view, or a step of a score   *)
(* request started by the sendScore effect.                                *)
(*                                                                         *)
(* moveSnake, checkCollision and handleKeyPress are useCallback closures.  *)
(* Every state cell they read is in their dependency list, and the effects *)
(* that install the interval and the key listener depend on the callbacks, *)
(* so a handler always runs with the values of the last committed render.  *)
(* Within one callback, however, a value read from the closure is the one  *)
(* of that render: a setState made earlier in the same callback is not     *)
(* visible to it.                                                          *)
(*                                                                         *)
(* The per-cell id (uuid) is a rendering key only and is left out.         *)
(***************************************************************************)
EXTENDS Integers, Sequences, FiniteSets, TLC

VARIABLES
    snake,          \* Position[] , head first
    direction,      \* {x, y}
    food,           \* {position, type}
    score,
    speed,          \* tick interval in ms
    displaySpeed,   \* in units of 0.5 (2 stands for 1.0)
    paused,
    gameOver,
    highScores,     \* the leaderboard last stored by setHighScores
    requests,       \* the sendScore calls made so far, in order
    server,         \* the remote score service: the submissions it has applied
    ticks,          \* interval callbacks run so far (bounds the exploration)
    timer           \* time since the tick interval was installed, in TimerUnit ms

vars == <<snake, direction, food, score, speed, displaySpeed, paused, gameOver,
          highScores, requests, server, ticks, timer>>

gameVars == <<snake, direction, food, score, speed, displaySpeed, paused, gameOver>>

-----------------------------------------------------------------------------
(* Bounds of the model *)

\* resetGame is not taken once this many score submissions have been made
MaxGames == 2
\* the interval callback runs at most MaxTicks times
MaxTicks == 15
\* in the long game the interval callback runs at most MaxLongTicks times
MaxLongTicks == 92
\* in the games with the score service the interval callback runs at most
\* MaxNetTicks times
MaxNetTicks == 26
\* in the timed game the interval callback runs at most MaxTimedTicks times
MaxTimedTicks == 12
\* in the long game every value class is drawn while score \div 10 = MixedDecade
MixedDecade == 4
\* a tick does not eat once the snake has this many cells
MaxLen == 3
\* Math.random() of a respawn draws one of the first NumSpawnCells pairs of SpawnDraw
NumSpawnCells == 2
\* the player presses only the first NumArrows arrow keys of ArrowKey (and Space)
NumArrows == 3

-----------------------------------------------------------------------------
(* Program constants *)

boardSize == 20

SMALL == 1
MEDIUM == 5
LARGE == 10

Pos(px, py) == [x |-> px, y |-> py]

\* displaySpeed is a multiple of 0.5; it is kept as the number of halves
Halves(whole, half) == 2 * whole + half

InitialSnake == <<Pos(10, 10)>>
InitialDirection == Pos(0, -1)
InitialFood == [position |-> Pos(5, 5), type |-> SMALL]
InitialSpeed == 200
InitialDisplaySpeed == Halves(1, 0)

Max(a, b) == IF a >= b THEN a ELSE b

-----------------------------------------------------------------------------
(* Inputs: the values Math.random() returns and the keys the player presses. *)
(* A value of Math.random() is kept in hundredths: r stands for r / 100.     *)

\* mutant: Math.round in place of Math.floor
RandomIndex_Rounds(r, n) == (r * n + 50) \div 100

\* Math.floor(Math.random() * n)
RandomIndex(r, n) == (r * n) \div 100

\* { x: Math.floor(Math.random() * boardSize), y: Math.floor(Math.random() * boardSize) }
RandomCell(rx, ry) == Pos(RandomIndex(rx, boardSize), RandomIndex(ry, boardSize))

FoodTypes == <<SMALL, MEDIUM, LARGE>>

\* [FoodType.SMALL, FoodType.MEDIUM, FoodType.LARGE][i]; an index outside the
\* array yields undefined, which is kept as 0 (no value class)
TypeAt(i) == IF i \in 0..(Len(FoodTypes) - 1) THEN FoodTypes[i + 1] ELSE 0

\* mutant: the drawn index is stored, not the value class at that index
RandomType_RawIndex(r) == RandomIndex(r, 3)

\* [SMALL, MEDIUM, LARGE][Math.floor(Math.random() * 3)]
RandomType(r) == TypeAt(RandomIndex(r, 3))

\* the pairs of random values drawn for a respawn: (10,9), (5,5), (10,8), ..
SpawnDraw(i) ==
    CASE i = 1 -> <<52, 47>>
      [] i = 2 -> <<27, 28>>
      [] i = 3 -> <<50, 40>>
      [] OTHER -> <<(7 * i) % 100, (13 * i) % 100>>

SpawnDraws == {SpawnDraw(i) : i \in 1..NumSpawnCells}

\* the random values drawn for the value class: one for each class
TypeDraws == {10, 50, 90}

ArrowKey(i) ==
    CASE i = 1 -> "ArrowUp"
      [] i = 2 -> "ArrowLeft"
      [] i = 3 -> "ArrowDown"
      [] OTHER -> "ArrowRight"

Keys == {ArrowKey(i) : i \in 1..NumArrows} \cup {" "}

-----------------------------------------------------------------------------
(* moveSnake: the head the updater builds, and the list it returns *)

NewHead(prev, dir) == Pos(prev[1].x + dir.x, prev[1].y + dir.y)

Eats(prev, dir, f) == NewHead(prev, dir) = f.position

\* mutant: the pop() of the else branch is missing
moveSnake_NeverPops(prev, dir, f) == <<NewHead(prev, dir)>> \o prev

\* mutant: a meal puts the new head in front twice
moveSnake_GrowsTwice(prev, dir, f) ==
    IF Eats(prev, dir, f)
    THEN <<NewHead(prev, dir), NewHead(prev, dir)>> \o prev
    ELSE <<NewHead(prev, dir)>> \o SubSeq(prev, 1, Len(prev) - 1)

moveSnake(prev, dir, f) ==
    IF Eats(prev, dir, f)
    THEN <<NewHead(prev, dir)>> \o prev
    ELSE <<NewHead(prev, dir)>> \o SubSeq(prev, 1, Len(prev) - 1)

\* mutant: counts the meals instead of adding the value class
NewScore_CountsMeals(sc, f) == sc + 1

NewScore(sc, f) == sc + f.type

\* mutant: the speed-up waits for a score that is a multiple of 50
CrossesFifty_OnMultiple(sc, newScore) == newScore % 50 = 0

CrossesFifty(sc, newScore) == (newScore \div 50) > (sc \div 50)

\* mutant: the Math.max floor is missing
SpeedUp_NoFloor(prev) == prev - 10

SpeedUp(prev) == Max(prev - 10, 50)

DisplaySpeedUp(prev) == prev + Halves(0, 1)

(* checkCollision over the snake its closure holds *)
checkCollision(s) ==
    \/ s[1].x < 0
    \/ s[1].x >= boardSize
    \/ s[1].y < 0
    \/ s[1].y >= boardSize
    \/ \E i \in 2..Len(s) : s[i].x = s[1].x /\ s[i].y = s[1].y

\* the snake checkCollision reads when the interval callback calls it right
\* after moveSnake(): the one of the closure, i.e. of the last render
CollisionSnake(rendered, moved) == rendered

-----------------------------------------------------------------------------
(* The sendScore effect and the requests it starts *)

NewRequest(sc) == [phase |-> "add", score |-> sc, reply |-> <<>>]

\* mutant: the if (gameOver) around sendScore() is missing
sendScoreEffect_WithoutGuard(oldOver, newOver, oldScore, newScore) ==
    IF oldOver # newOver \/ oldScore # newScore
    THEN requests' = Append(requests, NewRequest(newScore))
    ELSE requests' = requests

\* effect with deps [gameOver, playerName, score]: runs after a commit that
\* changed one of them and starts a request when gameOver is true
sendScoreEffect(oldOver, newOver, oldScore, newScore) ==
    IF newOver /\ (oldOver # newOver \/ oldScore # newScore)
    THEN requests' = Append(requests, NewRequest(newScore))
    ELSE requests' = requests

-----------------------------------------------------------------------------
Init ==
    /\ snake = InitialSnake
    /\ direction = InitialDirection
    /\ food = InitialFood
    /\ score = 0
    /\ speed = InitialSpeed
    /\ displaySpeed = InitialDisplaySpeed
    /\ paused = FALSE
    /\ gameOver = FALSE
    /\ highScores = <<>>
    /\ requests = <<>>
    /\ server = <<>>
    /\ ticks = 0
    /\ timer = 0

(* One callback of the interval: moveSnake(); if (checkCollision()) setGameOver(true) *)
\* mutant: the interval is kept while paused
TickEnabled_IgnoresPause == ~gameOver

\* mutant: the interval waits for the score requests to finish
TickEnabled_AwaitsRequests ==
    /\ ~paused
    /\ ~gameOver
    /\ \A i \in 1..Len(requests) : requests[i].phase \in {"done", "failed"}

\* if (!paused && !gameOver) { setInterval(...) }
TickEnabled == ~paused /\ ~gameOver

TickWith(cellDraws, typeDraws, maxTicks, maxLen) ==
    /\ TickEnabled
    /\ ticks < maxTicks
    /\ ticks' = ticks + 1
    /\ snake' = moveSnake(snake, direction, food)
    /\ IF Eats(snake, direction, food)
       THEN /\ Len(snake) < maxLen
            /\ \E c \in cellDraws, t \in typeDraws :
                   food' = [position |-> RandomCell(c[1], c[2]), type |-> RandomType(t)]
            /\ score' = NewScore(score, food)
            /\ IF CrossesFifty(score, NewScore(score, food))
               THEN /\ speed' = SpeedUp(speed)
                    /\ displaySpeed' = DisplaySpeedUp(displaySpeed)
               ELSE UNCHANGED <<speed, displaySpeed>>
       ELSE UNCHANGED <<food, score, speed, displaySpeed>>
    /\ gameOver' = checkCollision(CollisionSnake(snake, snake'))
    /\ sendScoreEffect(gameOver, gameOver', score, score')
    /\ UNCHANGED <<direction, paused, highScores, server>>

Tick == TickWith(SpawnDraws, TypeDraws, MaxTicks, MaxLen)

(* handleKeyPress *)
KeyDirection(key) ==
    CASE key = "ArrowUp" -> Pos(0, -1)
      [] key = "ArrowDown" -> Pos(0, 1)
      [] key = "ArrowLeft" -> Pos(-1, 0)
      [] key = "ArrowRight" -> Pos(1, 0)

IsArrow(key) == key \in {"ArrowUp", "ArrowDown", "ArrowLeft", "ArrowRight"}

\* mutant: the if (!paused) around the switch is missing
handleKeyPress_ArrowsWhilePaused(key) ==
    /\ paused' = IF key = " " THEN ~paused ELSE paused
    /\ direction' = IF IsArrow(key) THEN KeyDirection(key) ELSE direction
    /\ UNCHANGED <<snake, food, score, speed, displaySpeed, gameOver,
                   highScores, requests, server, ticks>>

handleKeyPress(key) ==
    /\ paused' = IF key = " " THEN ~paused ELSE paused
    /\ direction' = IF ~paused /\ IsArrow(key) THEN KeyDirection(key) ELSE direction
    /\ UNCHANGED <<snake, food, score, speed, displaySpeed, gameOver,
                   highScores, requests, server, ticks>>

KeyPress == \E key \in Keys : handleKeyPress(key)

\* mutant: setPaused(false) is missing
resetGame_KeepsPaused ==
    /\ snake' = InitialSnake
    /\ direction' = InitialDirection
    /\ score' = 0
    /\ speed' = InitialSpeed
    /\ displaySpeed' = InitialDisplaySpeed
    /\ gameOver' = FALSE
    /\ sendScoreEffect(gameOver, gameOver', score, score')
    /\ UNCHANGED <<paused, food, highScores, server, ticks>>

\* mutant: the food is put back to its first cell as well
resetGame_ResetsFood ==
    /\ snake' = InitialSnake
    /\ direction' = InitialDirection
    /\ food' = InitialFood
    /\ score' = 0
    /\ speed' = InitialSpeed
    /\ displaySpeed' = InitialDisplaySpeed
    /\ gameOver' = FALSE
    /\ paused' = FALSE
    /\ sendScoreEffect(gameOver, gameOver', score, score')
    /\ UNCHANGED <<highScores, server, ticks>>

(* resetGame, the onReset of the game-over view *)
resetGame ==
    /\ snake' = InitialSnake
    /\ direction' = InitialDirection
    /\ score' = 0
    /\ speed' = InitialSpeed
    /\ displaySpeed' = InitialDisplaySpeed
    /\ gameOver' = FALSE
    /\ paused' = FALSE
    /\ sendScoreEffect(gameOver, gameOver', score, score')
    /\ UNCHANGED <<food, highScores, server, ticks>>

\* the game-over view, the only place that renders the reset button
onReset == gameOver /\ resetGame

Reset ==
    /\ gameOver
    /\ Len(requests) < MaxGames
    /\ resetGame

(* sendScore: await addOrUpdateScore; await getScores; setHighScores *)
SetPhase(i, ph) == requests' = [requests EXCEPT ![i].phase = ph]

AddScoreDone(i) ==
    /\ requests[i].phase = "add"
    /\ server' = Append(server, requests[i].score)
    /\ SetPhase(i, "get")
    /\ UNCHANGED <<gameVars, highScores, ticks>>

GetScoresServed(i) ==
    /\ requests[i].phase = "get"
    /\ requests' = [requests EXCEPT ![i].phase = "reply", ![i].reply = server]
    /\ UNCHANGED <<gameVars, highScores, server, ticks>>

GetScoresDone(i) ==
    /\ requests[i].phase = "reply"
    /\ highScores' = requests[i].reply
    /\ SetPhase(i, "done")
    /\ UNCHANGED <<gameVars, server, ticks>>

\* mutant: the catch empties the stored leaderboard
RequestFails_ClearsLeaderboard(i) ==
    /\ requests[i].phase \in {"add", "get", "reply"}
    /\ SetPhase(i, "failed")
    /\ highScores' = <<>>
    /\ UNCHANGED <<gameVars, server, ticks>>

RequestFails(i) ==
    /\ requests[i].phase \in {"add", "get", "reply"}
    /\ SetPhase(i, "failed")
    /\ UNCHANGED <<gameVars, highScores, server, ticks>>

AddScoreStep == \E i \in 1..Len(requests) : AddScoreDone(i)
GetScoresServe == \E i \in 1..Len(requests) : GetScoresServed(i)
GetScoresStep == \E i \in 1..Len(requests) : GetScoresDone(i)
RequestFailure == \E i \in 1..Len(requests) : RequestFails(i)

Next ==
    \/ Tick /\ UNCHANGED timer
    \/ KeyPress /\ UNCHANGED timer
    \/ Reset /\ UNCHANGED timer
    \/ AddScoreStep /\ UNCHANGED timer
    \/ GetScoresServe /\ UNCHANGED timer
    \/ GetScoresStep /\ UNCHANGED timer
    \/ RequestFailure /\ UNCHANGED timer

\* Spec, SpecLong and SpecNet leave the passing of time out: a tick may come
\* at any moment while the interval exists, and the timer stays at 0
Spec == Init /\ [][Next]_vars

-----------------------------------------------------------------------------
(* A long game: the player steers the snake along a closed route through    *)
(* every cell of the board (rows 0, 2, .. rightwards, rows 1, 3, ..         *)
(* leftwards over the columns 1..19, and column 0 back up), and every       *)
(* respawn lands on the route cell right after the new head.  A tick that   *)
(* comes before the player's key press leaves the route.                    *)

RouteDirection(p) ==
    IF p.x = 0
    THEN (IF p.y = 0 THEN Pos(1, 0) ELSE Pos(0, -1))
    ELSE IF p.y % 2 = 0
         THEN (IF p.x = boardSize - 1 THEN Pos(0, 1) ELSE Pos(1, 0))
         ELSE (IF p.x = 1
               THEN (IF p.y = boardSize - 1 THEN Pos(-1, 0) ELSE Pos(0, 1))
               ELSE Pos(-1, 0))

RouteNext(p) == Pos(p.x + RouteDirection(p).x, p.y + RouteDirection(p).y)

OnBoard(p) == p.x >= 0 /\ p.x < boardSize /\ p.y >= 0 /\ p.y < boardSize

RouteKey(p) ==
    CHOOSE key \in {"ArrowUp", "ArrowDown", "ArrowLeft", "ArrowRight"} :
        KeyDirection(key) = RouteDirection(p)

\* random values that land on cell p: the middle of its hundredths
DrawFor(p) == <<5 * p.x + 2, 5 * p.y + 2>>

\* the value classes drawn in the long game: any of them in a tick that
\* starts with a score in the decade MixedDecade, LARGE in the others
LongTypeDraws == IF score \div 10 = MixedDecade THEN TypeDraws ELSE {90}

LongTick ==
    TickWith({DrawFor(RouteNext(NewHead(snake, direction)))}, LongTypeDraws,
             MaxLongTicks, MaxLongTicks + 2)

LongKeyPress ==
    /\ OnBoard(snake[1])
    /\ direction # RouteDirection(snake[1])
    /\ handleKeyPress(RouteKey(snake[1]))

LongPause == handleKeyPress(" ")

LongNext ==
    \/ LongTick /\ UNCHANGED timer
    \/ LongKeyPress /\ UNCHANGED timer
    \/ LongPause /\ UNCHANGED timer
    \/ Reset /\ UNCHANGED timer

SpecLong == Init /\ [][LongNext]_vars

-----------------------------------------------------------------------------
(* The game with the passing of time.  The interval effect depends on       *)
(* [moveSnake, checkCollision, gameOver, speed, paused]: a commit that       *)
(* changes one of them clears the interval and installs a new one, whose     *)
(* first callback is due a full `speed` ms later.  moveSnake is re-created   *)
(* when direction, food or score changes, checkCollision when snake does.    *)

\* milliseconds that pass in one step of the clock
TimerUnit == 50

\* the delay of setInterval(..., speed), in steps of the clock
Period(sp) == sp \div TimerUnit

\* time passes while the interval exists and its callback is not due
Elapse ==
    /\ TickEnabled
    /\ timer < Period(speed)
    /\ timer' = timer + 1
    /\ UNCHANGED <<gameVars, highScores, requests, server, ticks>>

\* the callback runs when it is due; it sets the snake, so the effect
\* installs a new interval
TimedTick ==
    /\ timer = Period(speed)
    /\ TickWith(SpawnDraws, TypeDraws, MaxTimedTicks, MaxLen)
    /\ timer' = 0

\* the keydown makes a commit that re-creates the interval: setPaused flips
\* paused; setDirection stores a new object, so moveSnake is re-created
RestartsInterval(key) == key = " " \/ (~paused /\ IsArrow(key))

TimedKeyPress ==
    \E key \in Keys :
        /\ handleKeyPress(key)
        /\ timer' = IF RestartsInterval(key) THEN 0 ELSE timer

TimedNext ==
    \/ Elapse
    \/ TimedTick
    \/ TimedKeyPress
    \/ Reset /\ timer' = 0
    \/ AddScoreStep /\ UNCHANGED timer
    \/ GetScoresServe /\ UNCHANGED timer
    \/ GetScoresStep /\ UNCHANGED timer
    \/ RequestFailure /\ UNCHANGED timer

\* time does not stop, and a callback that is due runs
SpecTimed ==
    /\ Init
    /\ [][TimedNext]_vars
    /\ WF_vars(Elapse)
    /\ WF_vars(TimedTick)

-----------------------------------------------------------------------------
(* Two games with the score service: the player follows the route of the    *)
(* long game, may reverse once the snake has three cells, and may pause; a  *)
(* respawn lands on the route cell after the new head or on the cell of the *)
(* old tail; the requests of a lost game run while the next one is played.  *)

ReverseKey(dir) ==
    CHOOSE key \in {"ArrowUp", "ArrowDown", "ArrowLeft", "ArrowRight"} :
        KeyDirection(key) = Pos(0 - dir.x, 0 - dir.y)

NetCellDraws ==
    {DrawFor(RouteNext(NewHead(snake, direction))), DrawFor(snake[Len(snake)])}

\* any value class for the respawn of a game's first meal, LARGE afterwards
NetTypeDraws == IF Len(snake) = 1 THEN TypeDraws ELSE {90}

NetTick == TickWith(NetCellDraws, NetTypeDraws, MaxNetTicks, MaxNetTicks + 2)

NetKeyPress ==
    \/ /\ OnBoard(snake[1])
       /\ direction # RouteDirection(snake[1])
       /\ handleKeyPress(RouteKey(snake[1]))
    \/ /\ Len(snake) >= 3
       /\ handleKeyPress(ReverseKey(direction))
    \/ handleKeyPress(" ")

NetNext ==
    \/ NetTick /\ UNCHANGED timer
    \/ NetKeyPress /\ UNCHANGED timer
    \/ Reset /\ UNCHANGED timer
    \/ AddScoreStep /\ UNCHANGED timer
    \/ GetScoresServe /\ UNCHANGED timer
    \/ GetScoresStep /\ UNCHANGED timer
    \/ RequestFailure /\ UNCHANGED timer

SpecNet == Init /\ [][NetNext]_vars

-----------------------------------------------------------------------------
(* Properties *)

\* a step that is a callback of the interval
IsTick == ticks' = ticks + 1

\* a step taken by the reset button: from game-over, it changes the game
IsReset ==
    /\ gameOver
    /\ <<snake, score, speed, displaySpeed, gameOver>>'
          # <<snake, score, speed, displaySpeed, gameOver>>

\* the collision the specification describes, over a snake s
HeadOffBoard(s) == ~OnBoard(s[1])
HeadOnBody(s) == \E i \in 2..Len(s) : s[i] = s[1]

NoTwoCellsCoincide(s) == \A i, j \in 1..Len(s) : i # j => s[i] # s[j]

Front(s) == SubSeq(s, 1, Len(s) - 1)

(* C1: in a tick, game-over is set iff the head produced by that same tick's
   move is off the board or on another cell of the moved snake. *)
C1_TickDetectsItsOwnMove ==
    [][IsTick => (gameOver' <=> (HeadOffBoard(snake') \/ HeadOnBody(snake')))]_vars

(* C2: a tick keeps the snake's length unless the new head (old head +
   direction) is on the food cell, and then the length grows by exactly one;
   the new snake is the new head followed by the old cells, without the old
   tail when nothing is eaten. *)
C2_TickLength ==
    [][IsTick =>
        LET head == Pos(snake[1].x + direction.x, snake[1].y + direction.y)
        IN  IF head = food.position
            THEN /\ Len(snake') = Len(snake) + 1
                 /\ snake' = <<head>> \o snake
            ELSE /\ Len(snake') = Len(snake)
                 /\ snake' = <<head>> \o Front(snake)]_vars

\* a snake of three cells that has moved on after its second meal
C2_Witness ==
    /\ Len(snake) = 3
    /\ ~gameOver
    /\ snake[1] # food.position
    /\ score > SMALL

(* C3: between two resets the score never decreases; every change of the
   score is made by a tick whose new head is on the food cell and adds exactly
   the value class (1, 5 or 10) of the food eaten in that tick; such a tick
   always changes it; no other event changes the score. *)
C3_ScoreChanges ==
    [][/\ (score' # score /\ ~IsReset) =>
            /\ IsTick
            /\ NewHead(snake, direction) = food.position
            /\ food.type \in {1, 5, 10}
            /\ score' = score + food.type
       /\ (IsTick /\ NewHead(snake, direction) = food.position) =>
            score' = score + food.type
       /\ ~IsReset => score' >= score]_vars

\* the initial SMALL food and then a MEDIUM or a LARGE one have been eaten
C3_Witness == score \in {1 + 5, 1 + 10} /\ Len(snake) = 3

(* C4: between two resets speed changes only in a tick that eats food with
   floor(newScore/50) > floor(oldScore/50), and then becomes
   max(speed - 10, 50); 50 <= speed <= 200 always; speed never increases
   except by reset. *)
C4_SpeedChanges ==
    [][LET eats == NewHead(snake, direction) = food.position
           crosses == ((score + food.type) \div 50) > (score \div 50)
       IN  /\ 50 <= speed' /\ speed' <= 200
           /\ (speed' # speed /\ ~IsReset) =>
                /\ IsTick /\ eats /\ crosses
                /\ speed' = IF speed - 10 > 50 THEN speed - 10 ELSE 50
           /\ (IsTick /\ eats /\ crosses) =>
                speed' = IF speed - 10 > 50 THEN speed - 10 ELSE 50
           /\ speed' > speed => IsReset]_vars

\* the sixteenth multiple of 50 has been crossed with the interval at its floor
C4_Witness == speed = 50 /\ score >= 800 /\ ~gameOver

(* C5: resetGame yields snake = [(10,10)], direction = (0,-1), score = 0,
   speed = 200, displaySpeed = 1, paused = false, gameOver = false, whatever
   the state it is called in (paused or not, a score request in flight or
   completed). *)
C5_ResetRestores ==
    [][IsReset =>
        /\ snake' = <<[x |-> 10, y |-> 10]>>
        /\ direction' = [x |-> 0, y |-> -1]
        /\ score' = 0
        /\ speed' = 200
        /\ displaySpeed' = Halves(1, 0)
        /\ paused' = FALSE
        /\ gameOver' = FALSE]_vars

\* a new game after a lost one that had scored, its request being completed
C5_Witness ==
    /\ Len(requests) = 1
    /\ requests[1].score > 0
    /\ requests[1].phase = "done"
    /\ ~gameOver /\ ~paused
    /\ snake = InitialSnake /\ score = 0 /\ direction = InitialDirection

(* C6 as stated: after resetGame every component of the game state, the food
   cell and value class included, equals its value at game start. *)
C6_ResetRestoresWholeState ==
    [][IsReset =>
        gameVars' = <<InitialSnake, InitialDirection, InitialFood, 0,
                      InitialSpeed, InitialDisplaySpeed, FALSE, FALSE>>]_vars

(* C6 amended: after resetGame snake, direction, score, speed, displaySpeed
   and the pause/over flags equal their values at game start, and the food
   (cell and value class) is the one of the game just lost. *)
C6_ResetKeepsFood ==
    [][IsReset =>
        /\ <<snake, direction, score, speed, displaySpeed, paused, gameOver>>'
              = <<InitialSnake, InitialDirection, 0, InitialSpeed,
                  InitialDisplaySpeed, FALSE, FALSE>>
        /\ food' = food]_vars

\* a new game, not yet moved, with the food left by a game that had sped up
C6_Witness ==
    /\ Len(requests) = 1
    /\ requests[1].score >= 50
    /\ ~gameOver
    /\ snake = InitialSnake /\ score = 0 /\ speed = InitialSpeed
    /\ food # InitialFood

(* C7: while paused or game-over no tick runs and nothing but resetGame
   changes snake, food, score, speed or displaySpeed; once gameOver is true it
   stays true until resetGame; gameOver is only ever set by a tick taken while
   not paused. *)
C7_TicksOnlyWhilePlaying ==
    [][/\ (paused \/ gameOver) =>
            /\ ~IsTick
            /\ \/ UNCHANGED <<snake, food, score, speed, displaySpeed>>
               \/ gameOver /\ resetGame
       /\ (gameOver /\ ~gameOver') => resetGame
       /\ (~gameOver /\ gameOver') => (IsTick /\ ~paused)]_vars

\* a game paused at a point where a tick would move the snake on the board
C7_Witness ==
    /\ paused /\ ~gameOver
    /\ ticks > 0 /\ ticks < MaxTicks
    /\ OnBoard(NewHead(snake, direction))

(* C8: in every reachable state with gameOver = false the snake has at least
   one cell and no two snake cells share coordinates. *)
C8_NoOverlapWhilePlaying ==
    ~gameOver => (Len(snake) >= 1 /\ NoTwoCellsCoincide(snake))

\* the state the scenario of C9 starts from
C9_Start ==
    /\ snake = <<Pos(10, 10)>>
    /\ direction = Pos(0, -1)
    /\ food.position = Pos(10, 9)
    /\ ~paused /\ ~gameOver

(* C9 as stated: from snake = [(10,10)], direction up, food at (10,9), the
   next tick produces snake exactly [(10,9)] and adds the food's value. *)
C9_ScenarioAsStated ==
    [][(C9_Start /\ IsTick) =>
        (snake' = <<Pos(10, 9)>> /\ score' = score + food.type)]_vars

(* C9 amended: from that state the next tick produces snake
   [(10,9), (10,10)], the new head followed by the old cell, and adds the
   food's value. *)
C9_ScenarioGrows ==
    [][(C9_Start /\ IsTick) =>
        (snake' = <<Pos(10, 9), Pos(10, 10)>> /\ score' = score + food.type)]_vars

\* the state right after the tick of the scenario
C9_Witness ==
    /\ snake = <<Pos(10, 9), Pos(10, 10)>>
    /\ direction = Pos(0, -1)
    /\ score \in {SMALL, MEDIUM, LARGE}
    /\ Len(requests) >= 1

(* C10 as stated: when a tick eats the food, the cell of the replacement
   differs from the cell of the food just eaten. *)
C10_RespawnElsewhere ==
    [][(IsTick /\ NewHead(snake, direction) = food.position) =>
        food'.position # food.position]_vars

(* C10 amended: when a tick eats the food, the replacement is a cell of the
   board [0,20)x[0,20) with a value class in {1,5,10}, drawn without regard
   to the eaten cell (it can be that very cell, under the new head). *)
C10_RespawnOnBoard ==
    [][(IsTick /\ NewHead(snake, direction) = food.position) =>
        /\ food'.position.x \in 0..19
        /\ food'.position.y \in 0..19
        /\ food'.type \in {1, 5, 10}]_vars

\* the replacement has landed on the cell just eaten
C10_Witness ==
    /\ Len(snake) >= 2
    /\ food.position = snake[1]
    /\ ~gameOver

\* the unit vector the specification gives for an arrow key
ArrowVector(key) ==
    CASE key = "ArrowUp" -> [x |-> 0, y |-> -1]
      [] key = "ArrowDown" -> [x |-> 0, y |-> 1]
      [] key = "ArrowLeft" -> [x |-> -1, y |-> 0]
      [] key = "ArrowRight" -> [x |-> 1, y |-> 0]

\* a step that flips paused, or sets direction to d, and changes nothing else
FlipsPausedOnly ==
    /\ paused' = ~paused
    /\ UNCHANGED <<snake, direction, food, score, speed, displaySpeed, gameOver,
                   highScores, requests, server, ticks>>

TurnsOnly(d) ==
    /\ direction' = d
    /\ UNCHANGED <<snake, food, score, speed, displaySpeed, paused, gameOver,
                   highScores, requests, server, ticks>>

(* C11: in every state (playing, paused, game-over) a Space press flips
   paused and changes nothing else; an arrow press sets direction to the
   key's unit vector iff paused is false, and direction never changes while
   paused; no key press changes snake, food, score, speed or gameOver. *)
C11_KeyPresses ==
    /\ [](/\ ENABLED (KeyPress /\ FlipsPausedOnly)
          /\ \A i \in 1..NumArrows :
                (~paused /\ direction # ArrowVector(ArrowKey(i)))
                    => ENABLED (KeyPress /\ TurnsOnly(ArrowVector(ArrowKey(i)))))
    /\ [][/\ KeyPress => (FlipsPausedOnly \/ \E i \in 1..NumArrows :
                                                TurnsOnly(ArrowVector(ArrowKey(i))))
          /\ (paused' # paused /\ ~IsReset) => FlipsPausedOnly
          /\ (direction' # direction /\ ~IsReset) =>
                /\ ~paused
                /\ \E i \in 1..NumArrows : TurnsOnly(ArrowVector(ArrowKey(i)))]_vars

\* Space has been pressed in the game-over view of a game that had turned left
C11_Witness == paused /\ gameOver /\ direction = [x |-> -1, y |-> 0]

\* the snake s lies in a straight line, its head leading
Straight(s) ==
    \A i \in 1..(Len(s) - 1) :
        Pos(s[i].x - s[i + 1].x, s[i].y - s[i + 1].y)
            = Pos(s[1].x - s[2].x, s[1].y - s[2].y)

\* the direction has been reversed into the snake s
ReversedInto(s, dir) == Pos(s[1].x + dir.x, s[1].y + dir.y) = s[2]

(* C12: while not paused the arrow key opposite to the direction is accepted
   (direction becomes the reverse), and for a straight snake of at least 3
   cells the tick after the reversal moves the head onto a body cell and
   sets game-over in that same tick. *)
C12_ReversalEndsGameAtOnce ==
    /\ [](~paused =>
            ENABLED (/\ handleKeyPress(ReverseKey(direction))
                     /\ TurnsOnly(Pos(0 - direction.x, 0 - direction.y))))
    /\ [][(/\ IsTick
           /\ Len(snake) >= 3
           /\ Straight(snake)
           /\ ReversedInto(snake, direction))
              => (HeadOnBody(snake') /\ gameOver')]_vars

\* a step that issues a score submission
Submits == Len(requests') > Len(requests)

(* C13: a step that turns gameOver from false to true issues exactly one
   submission, carrying the score of the game-over state; submissions are
   issued by no other step (none while gameOver stays false, none by reset);
   a request asks for the leaderboard only in the step in which its own
   submission has succeeded and been stored by the service. *)
C13_OneSubmissionPerGameOver ==
    [][/\ (~gameOver /\ gameOver') =>
              requests' = Append(requests, NewRequest(score'))
       /\ Submits => (~gameOver /\ gameOver')
       /\ \A i \in 1..Len(requests) :
              /\ (requests'[i].phase = "get" /\ requests[i].phase # "get") =>
                    /\ requests[i].phase = "add"
                    /\ server' = Append(server, requests[i].score)
              /\ requests'[i].phase \in {"reply", "done"} =>
                    requests[i].phase \in {"get", "reply", "done"}
              /\ requests'[i].score = requests[i].score]_vars

\* the second game was lost with another score than the first, and its
\* submission has succeeded
C13_Witness ==
    /\ gameOver
    /\ Len(requests) = 2
    /\ requests[1].score # requests[2].score
    /\ requests[2].score > 0
    /\ requests[2].phase = "get"

\* a step in which a submission or a leaderboard fetch fails
Fails ==
    \E i \in 1..Len(requests) :
        requests[i].phase # "failed" /\ requests'[i].phase = "failed"

(* C14: the failure of a submission or of a leaderboard fetch changes none of
   snake, direction, food, score, speed, displaySpeed, paused, gameOver and
   the stored leaderboard; a game that is over stays over, and the reset of
   the game-over view is enabled after the failure. *)
C14_FailureAbsorbed ==
    /\ [][Fails => UNCHANGED <<gameVars, highScores>>]_vars
    /\ []((gameOver /\ \E i \in 1..Len(requests) : requests[i].phase = "failed")
            => ENABLED onReset)

\* the first game's leaderboard is stored, and the fetch of the second lost
\* game has failed after its submission succeeded
C14_Witness ==
    /\ gameOver
    /\ Len(requests) = 2
    /\ requests[1].phase = "done"
    /\ requests[2].phase = "failed"
    /\ Len(server) = 2
    /\ highScores # <<>>

\* a submission or a fetch is in flight
InFlight == \E i \in 1..Len(requests) : requests[i].phase \in {"add", "get", "reply"}

\* a step of a request after it was issued: a reply or a failure arrives
RequestStep ==
    /\ ~Submits
    /\ <<requests, server, highScores>>' # <<requests, server, highScores>>

\* a step in which a request completes and stores the leaderboard
Completes ==
    \E i \in 1..Len(requests) :
        requests[i].phase # "done" /\ requests'[i].phase = "done"

(* C15: while a submission or a fetch is in flight, the reset of a lost
   game, the key presses and the ticks of a game being played are all
   enabled; no step of a request changes a game variable, and the completion
   of a request changes only the stored leaderboard, also after a reset. *)
C15_RequestsDetached ==
    /\ [](InFlight =>
            /\ gameOver => ENABLED onReset
            /\ ENABLED (KeyPress /\ FlipsPausedOnly)
            /\ ~paused => ENABLED (handleKeyPress(ReverseKey(direction))
                                      /\ direction' # direction)
            /\ (~paused /\ ~gameOver) =>
                   ENABLED TickWith(NetCellDraws, NetTypeDraws,
                                    MaxNetTicks + 1, MaxNetTicks + 2))
    /\ [][/\ RequestStep => UNCHANGED gameVars
          /\ Completes => UNCHANGED <<gameVars, server>>
          /\ highScores' # highScores => Completes]_vars

\* the request of the lost game is still in flight while the snake of the
\* next game has moved away from its first cell
C15_Witness ==
    /\ ~gameOver
    /\ Len(requests) = 1
    /\ requests[1].phase = "reply"
    /\ Len(snake) = 2
    /\ score > 0

Playing == ~paused /\ ~gameOver

\* a step in which an arrow key turns the snake of a game being played
ArrowTurn ==
    /\ Playing
    /\ direction' # direction
    /\ \E i \in 1..NumArrows : handleKeyPress(ArrowKey(i))

(* C16: while the game is played an arrow key press only sets the direction
   and leaves the tick timer as it is, so that the tick count of a playing
   state is eventually exceeded (or the game is paused) however many arrow
   keys are pressed: the snake eventually moves. *)
C16_TicksIndependentOfInput ==
    /\ [][ArrowTurn => timer' = timer]_vars
    /\ \A n \in 0..(MaxTimedTicks - 1) :
           (Playing /\ ticks = n) ~> (ticks > n \/ ~Playing)

(* C17: the one food item is always on a cell of the board with a value
   class in {1, 5, 10}; a step changes the food only if it is a tick whose
   new head is on the food cell: other ticks, key presses, resetGame and the
   steps of a request leave it unchanged. *)
C17_FoodFrame ==
    /\ [](/\ OnBoard(food.position)
          /\ food.type \in {SMALL, MEDIUM, LARGE})
    /\ [][food' # food => (IsTick /\ Eats(snake, direction, food))]_vars

\* a respawned food has survived the end of its game, the reset and the
\* completion of the request of the lost game
C17_Witness ==
    /\ food # InitialFood
    /\ food.type = LARGE
    /\ ~gameOver
    /\ score = 0
    /\ paused
    /\ Len(requests) = 1
    /\ requests[1].phase = "done"

\* the number of multiples of 50 the score has reached
SpeedLevel == score \div 50

(* C18: in every reachable state speed = max(50, 200 - 10 * k) and
   displaySpeed = 1 + 0.5 * k, where k = floor(score / 50); the display
   multiplier keeps growing after the interval has reached its floor. *)
C18_SpeedIsFunctionOfScore ==
    /\ speed = Max(50, InitialSpeed - 10 * SpeedLevel)
    /\ displaySpeed = Halves(1, SpeedLevel)

\* the interval is at its floor and the score has passed one more multiple
\* of 50 since it got there, the last one by a step over it
C18_Witness ==
    /\ speed = 50
    /\ displaySpeed = Halves(9, 0)
    /\ score % 50 # 0

\* every request issued so far has stored its leaderboard
AllCompleted ==
    /\ requests # <<>>
    /\ \A i \in 1..Len(requests) : requests[i].phase = "done"

(* C19: once all requests have completed, the stored leaderboard is the one
   fetched for the most recent game-over: the reply of an earlier game never
   replaces the reply of a later one. *)
C19_LatestReplyWins ==
    AllCompleted => highScores = requests[Len(requests)].reply

====
